---------------------------- MODULE Spec2Model ----------------------------
(***************************************************************************)
(* Model of the performative detector: the per-frame loop of               *)
(* PerformativeDetector.run (src/performative_detector.py) and the         *)
(* background playback task of SpotifyController                          *)
(* (src/spotify_controller.py).                                            *)
(*                                                                         *)
(* Time is counted in ticks of 0.2 s: time.time() is a float of seconds,   *)
(* holding_duration_threshold = 0.2 s is 1 tick and face_cam_delay = 1.0 s *)
(* is 5 ticks.  Landmark coordinates are normalised floats in [0,1]; they  *)
(* are counted in hundredths (0..100).                                     *)
(***************************************************************************)
EXTENDS Integers, Sequences, FiniteSets

(* ------------------------------ bounds -------------------------------- *)

\* last clock tick a frame may carry
MaxTime == 9
\* largest number of ticks between two consecutive frames
MaxDt == 2
\* number of background threads that can exist at once
MaxTasks == 2
\* frames rendered in face-cam mode (force_top_counter grows without limit)
MaxForceTop == 2

(* ----------------------------- constants ------------------------------ *)

\* Python's None for the two timestamps (time.time() is never negative)
NoneTime == -1
\* self.holding_duration_threshold = 0.2 (seconds), in ticks
holding_duration_threshold == 1
\* self.face_cam_delay = 1.0 (seconds), in ticks
face_cam_delay == 5
\* max_num_hands=2 handed to MediaPipe
max_num_hands == 2
\* each hand has 21 landmarks, 0..20
NumLandmarks == 21
\* self.target_track_uri
target_track_uri == "spotify:track:2mWfVxEo4xZYDaz0v7hYrN"
\* some other track the remote account may be playing
other_track_uri == "spotify:track:other"

(* ------------------------- gesture classifier -------------------------- *)

Pt(x, y) == [x |-> x, y |-> y]

\* A fist whose 21 landmarks all sit on the wrist point (wx, wy).
GripHand(wx, wy) == [i \in 0..(NumLandmarks - 1) |-> Pt(wx, wy)]

\* An open hand: knuckles 10 above the wrist, index and middle fingertips
\* 40 above it, thumb tip 35 to the left.
OpenHand(wx, wy) ==
    [i \in 0..(NumLandmarks - 1) |->
        CASE i = 4          -> Pt(wx - 35, wy - 10)
          [] i \in {5, 9}   -> Pt(wx, wy - 10)
          [] i \in {8, 12}  -> Pt(wx, wy - 40)
          [] OTHER          -> Pt(wx, wy)]

\* The hands the landmark source may report, by name.
HandShapes == {"grip", "open", "edge"}

\* hand_landmarks.landmark of a reported hand: a fist in the centre, an
\* open hand in the centre, a fist at the right edge of the frame.
Landmarks(shape) ==
    CASE shape = "grip" -> GripHand(30, 50)
      [] shape = "open" -> OpenHand(50, 60)
      [] shape = "edge" -> GripHand(95, 50)

\* results.multi_hand_landmarks: up to max_num_hands hands, in order.
HandLists == UNION {[1..n -> HandShapes] : n \in 0..max_num_hands}

LandmarkList(hs) == [i \in DOMAIN hs |-> Landmarks(hs[i])]

RECURSIVE SumX(_, _)
SumX(h, n) == IF n < 0 THEN 0 ELSE h[n].x + SumX(h, n - 1)

RECURSIVE SumY(_, _)
SumY(h, n) == IF n < 0 THEN 0 ELSE h[n].y + SumY(h, n - 1)

\* np.mean over the 21 landmarks, kept as the sum (21 times the mean, in
\* hundredths) so that every comparison below is exact integer arithmetic.
CenterX21(h) == SumX(h, NumLandmarks - 1)
CenterY21(h) == SumY(h, NumLandmarks - 1)

\* detect_holding_gesture with the comparison of the distance written <=.
detect_holding_gesture_Inclusive(hl) ==
    IF Len(hl) < 2 THEN FALSE
    ELSE LET dx == CenterX21(hl[1]) - CenterX21(hl[2])
             dy == CenterY21(hl[1]) - CenterY21(hl[2])
             sx == CenterX21(hl[1]) + CenterX21(hl[2])
             sy == CenterY21(hl[1]) + CenterY21(hl[2])
         IN  /\ dx * dx + dy * dy <= 1050 * 1050
             /\ 420 < sx /\ sx < 3780
             /\ 420 < sy /\ sy < 3990

\* detect_holding_gesture: fewer than two hands -> False; else the first
\* two centroids are closer than 0.5 and their midpoint is in the centre
\* rectangle 0.1 < x < 0.9, 0.1 < y < 0.95.
\*   dist < 0.5          <=>  dx21^2 + dy21^2 < (0.5 * 21 * 100)^2
\*   0.1 < avg_x < 0.9   <=>  0.1*2*2100 < sx < 0.9*2*2100
detect_holding_gesture(hl) ==
    IF Len(hl) < 2 THEN FALSE
    ELSE LET dx == CenterX21(hl[1]) - CenterX21(hl[2])
             dy == CenterY21(hl[1]) - CenterY21(hl[2])
             sx == CenterX21(hl[1]) + CenterX21(hl[2])
             sy == CenterY21(hl[1]) + CenterY21(hl[2])
         IN  /\ dx * dx + dy * dy < 1050 * 1050
             /\ 420 < sx /\ sx < 3780
             /\ 420 < sy /\ sy < 3990

\* detect_single_hand_holding requiring both fingers curled.
detect_single_hand_holding_BothCurled(h) ==
    LET wrist == h[0]
        thumb_tip == h[4]
        index_tip == h[8]
        middle_tip == h[12]
        index_mcp == h[5]
        middle_mcp == h[9]
        index_curled == index_tip.y > index_mcp.y - 8
        middle_curled == middle_tip.y > middle_mcp.y - 8
        tdx == thumb_tip.x - index_tip.x
        tdy == thumb_tip.y - index_tip.y
    IN  /\ 10 < wrist.x /\ wrist.x < 90
        /\ 10 < wrist.y /\ wrist.y < 95
        /\ index_curled /\ middle_curled
        /\ tdx * tdx + tdy * tdy < 30 * 30

\* detect_single_hand_holding: wrist in the centre rectangle, index or
\* middle fingertip curled (tip.y > mcp.y - 0.08), thumb tip closer than
\* 0.3 to the index tip.
detect_single_hand_holding(h) ==
    LET wrist == h[0]
        thumb_tip == h[4]
        index_tip == h[8]
        middle_tip == h[12]
        index_mcp == h[5]
        middle_mcp == h[9]
        index_curled == index_tip.y > index_mcp.y - 8
        middle_curled == middle_tip.y > middle_mcp.y - 8
        tdx == thumb_tip.x - index_tip.x
        tdy == thumb_tip.y - index_tip.y
    IN  /\ 10 < wrist.x /\ wrist.x < 90
        /\ 10 < wrist.y /\ wrist.y < 95
        /\ index_curled \/ middle_curled
        /\ tdx * tdx + tdy * tdy < 30 * 30

\* A loop that fed the geometric rules to the debounce machine: the
\* single-hand rule for one hand, the two-hand rule for two or more.
ClassifierSignal(hl) ==
    IF Len(hl) = 0 THEN FALSE
    ELSE IF Len(hl) = 1 THEN detect_single_hand_holding(LandmarkList(hl)[1])
    ELSE detect_holding_gesture(LandmarkList(hl))

\* run, lines 264-278: holding_detected starts False and becomes True as
\* soon as results.multi_hand_landmarks is non-empty ("Any hands detected").
HoldingDetected(hl) == Len(hl) > 0

\* A hand given by five numbers: the wrist (wx, wy), how far the index and
\* the middle fingertip are raised above their knuckles (idy, mdy), and how
\* far the thumb tip is to the right of the index tip (tdx).  Knuckles and
\* the other landmarks sit on the wrist point.
HandOf(d) ==
    [i \in 0..(NumLandmarks - 1) |->
        CASE i = 4   -> Pt(d.wx + d.tdx, d.wy - d.idy)
          [] i = 8   -> Pt(d.wx, d.wy - d.idy)
          [] i = 12  -> Pt(d.wx, d.wy - d.mdy)
          [] OTHER   -> Pt(d.wx, d.wy)]

HandsOf(ds) == [i \in DOMAIN ds |-> HandOf(ds[i])]

Fist(wx, wy) == [wx |-> wx, wy |-> wy, idy |-> 0, mdy |-> 0, tdx |-> 0]

\* Hands for the two-hand rule: fists on a grid that holds pairs exactly 0.5
\* apart and pairs whose midpoint lies exactly on each edge of the centre
\* rectangle, and two hands with raised fingers whose centroid is not the
\* wrist.
PairHands ==
    {Fist(x, y) : x \in {5, 10, 20, 50, 70, 90, 95}, y \in {10, 50, 95}}
    \cup {[wx |-> 20, wy |-> 50, idy |-> 10, mdy |-> 10, tdx |-> 30],
          [wx |-> 70, wy |-> 50, idy |-> 10, mdy |-> 8, tdx |-> 0]}

\* The landmark lists handed to detect_holding_gesture: none, one or two
\* hands, and two hands followed by a third.
PairProbes ==
    UNION {[1..n -> PairHands] : n \in 0..2}
    \cup {<<a, b, Fist(50, 50)>> : a \in {Fist(20, 50), Fist(5, 10)},
                                   b \in {Fist(50, 50), Fist(70, 50)}}

\* Hands for the single-hand rule: the wrist on and inside the edges of the
\* centre rectangle, each fingertip level with its knuckle, raised by exactly
\* the slack 0.08 or by more, the thumb on, just inside 0.3 of, or exactly
\* 0.3 from the index tip.
SingleHands ==
    {[wx |-> x, wy |-> y, idy |-> i, mdy |-> m, tdx |-> t] :
        x \in {10, 50, 90}, y \in {10, 50, 95},
        i \in {0, 8, 10}, m \in {0, 8, 10}, t \in {0, 29, 30}}

(* ------------------------------- state --------------------------------- *)

VARIABLES
    pc,                       \* "running": in the while loop of run; "stopped": after the cleanup
    now,                      \* current_time of the last frame (the clock at construction before it)
    hands,                    \* results.multi_hand_landmarks of the last frame
    holding_detected,         \* the per-frame signal of the last frame
    is_holding,               \* PerformativeDetector.is_holding
    holding_start_time,       \* PerformativeDetector.holding_start_time
    spotify_mode,             \* PerformativeDetector.spotify_mode
    spotify_mode_start_time,  \* PerformativeDetector.spotify_mode_start_time
    face_cam_shown,           \* PerformativeDetector.face_cam_shown
    force_top_counter,        \* PerformativeDetector.force_top_counter
    status_text,              \* the text of the Status window
    windows,                  \* the OpenCV windows that exist
    surface,                  \* the window the last frame drew the camera image to
    sp,                       \* SpotifyController.sp: "client" or "None"
    device_id,                \* SpotifyController.device_id: "device" or "None"
    is_playing,               \* SpotifyController.is_playing
    window_opened,            \* SpotifyController.window_opened
    tasks,                    \* the live background threads, counted by where they stand
    remote,                   \* the remote account's playback: what current_playback reports
    lastResult,               \* history: how the background thread that ended last ended
    runStart,                 \* history: time of the first true frame of the current run of true frames
    runConfirms,              \* history: HoldingConfirmed edges in the current run of true frames
    playsSinceNotHolding,     \* history: play_juna calls since a frame last left is_holding False
    retried,                  \* history: play_juna was called after a thread had ended in failure
    keptPlaying,              \* history: a thread's start_playback made the remote play the target
                              \*          track and nothing has changed the remote since
    probe,                    \* the landmark sets last handed to a gesture rule called on its own
    verdict,                  \* the rule called and what it returned
    ref                       \* history: the detector's state had the same frames been fed to a
                              \*          detector whose playback is unavailable

detector == <<pc, now, hands, holding_detected, is_holding, holding_start_time,
              spotify_mode, spotify_mode_start_time, face_cam_shown,
              force_top_counter, status_text, windows, surface>>
controller == <<sp, device_id, is_playing, window_opened>>
history == <<runStart, runConfirms, playsSinceNotHolding, retried, ref>>
classifier == <<probe, verdict>>
vars == <<detector, controller, tasks, remote, lastResult, history, keptPlaying,
          classifier>>

\* The HoldingState fields as one record.
HoldingState == [is_holding |-> is_holding,
                 holding_start_time |-> holding_start_time,
                 spotify_mode |-> spotify_mode,
                 spotify_mode_start_time |-> spotify_mode_start_time]

\* What the remote account can be doing: nothing (current_playback gives
\* None or no item), the target track playing or paused, another track
\* playing.
RemoteStates ==
    {[item |-> "None", is_playing |-> FALSE, device |-> "None"],
     [item |-> target_track_uri, is_playing |-> TRUE, device |-> "device"],
     [item |-> target_track_uri, is_playing |-> FALSE, device |-> "device"],
     [item |-> other_track_uri, is_playing |-> TRUE, device |-> "device"]}

\* The threads are anonymous and keep nothing but their place in
\* _play_juna_async: "query" before current_playback, "start" before
\* start_playback.
LiveTasks(ts) == ts.query + ts.start

(* --------------------------- SpotifyController ------------------------- *)

\* is_spotify_available that looks at the client only, as play_juna does.
is_spotify_available_ClientOnly == sp # "None"

\* is_spotify_available: self.sp is not None and self.device_id is not None
is_spotify_available == sp # "None" /\ device_id # "None"

\* play_juna: without a client return False, else start a daemon thread
\* that runs _play_juna_async.
play_juna(ts) ==
    IF sp = "None" THEN ts ELSE [ts EXCEPT !.query = @ + 1]

\* pause: nothing without a client or when is_playing is False; else
\* pause_playback on the device and is_playing = False.  c is
\* [is_playing, remote].
pause(c) ==
    IF sp = "None" \/ ~c.is_playing THEN c
    ELSE [is_playing |-> FALSE,
          remote |-> [c.remote EXCEPT !.is_playing = FALSE]]

(* ------------------------- debounce state machine ---------------------- *)

\* OnHolding without the "if not self.is_holding" guard: every frame past
\* the threshold confirms again.
OnHolding_NoGuard(s, t, avail) ==
    IF s.holding_start_time = NoneTime
    THEN [state |-> [s EXCEPT !.holding_start_time = t],
          confirmed |-> FALSE, calls |-> {}]
    ELSE IF t - s.holding_start_time > holding_duration_threshold
    THEN [state |-> [s EXCEPT !.is_holding = TRUE,
                              !.spotify_mode = TRUE,
                              !.spotify_mode_start_time = t],
          confirmed |-> TRUE,
          calls |-> IF avail THEN {"play_juna"} ELSE {}]
    ELSE [state |-> s, confirmed |-> FALSE, calls |-> {}]

\* OnHolding with the play_juna call moved out of the "if not
\* self.is_holding" block: it is made on every frame past the threshold.
OnHolding_PlayOutsideGuard(s, t, avail) ==
    IF s.holding_start_time = NoneTime
    THEN [state |-> [s EXCEPT !.holding_start_time = t],
          confirmed |-> FALSE, calls |-> {}]
    ELSE IF t - s.holding_start_time > holding_duration_threshold
    THEN [state |-> [s EXCEPT !.is_holding = TRUE,
                              !.spotify_mode = TRUE,
                              !.spotify_mode_start_time =
                                  IF s.is_holding THEN @ ELSE t],
          confirmed |-> ~s.is_holding,
          calls |-> IF avail THEN {"play_juna"} ELSE {}]
    ELSE [state |-> s, confirmed |-> FALSE, calls |-> {}]

\* OnHolding that enters HOLDING only when the trigger could be made.
OnHolding_NeedsPlayback(s, t, avail) ==
    IF s.holding_start_time = NoneTime
    THEN [state |-> [s EXCEPT !.holding_start_time = t],
          confirmed |-> FALSE, calls |-> {}]
    ELSE IF t - s.holding_start_time > holding_duration_threshold /\ ~s.is_holding /\ avail
    THEN [state |-> [s EXCEPT !.is_holding = TRUE,
                              !.spotify_mode = TRUE,
                              !.spotify_mode_start_time = t],
          confirmed |-> TRUE, calls |-> {"play_juna"}]
    ELSE [state |-> s, confirmed |-> FALSE, calls |-> {}]

\* OnHolding that gives up triggering once an attempt has failed.
OnHolding_NoRetryAfterFailure(s, t, avail) ==
    IF s.holding_start_time = NoneTime
    THEN [state |-> [s EXCEPT !.holding_start_time = t],
          confirmed |-> FALSE, calls |-> {}]
    ELSE IF t - s.holding_start_time > holding_duration_threshold /\ ~s.is_holding
    THEN [state |-> [s EXCEPT !.is_holding = TRUE,
                              !.spotify_mode = TRUE,
                              !.spotify_mode_start_time = t],
          confirmed |-> TRUE,
          calls |-> IF avail /\ lastResult # "failed" THEN {"play_juna"} ELSE {}]
    ELSE [state |-> s, confirmed |-> FALSE, calls |-> {}]

\* OnHolding with the comparison of the elapsed time written >=.
OnHolding_NonStrict(s, t, avail) ==
    IF s.holding_start_time = NoneTime
    THEN [state |-> [s EXCEPT !.holding_start_time = t],
          confirmed |-> FALSE, calls |-> {}]
    ELSE IF t - s.holding_start_time >= holding_duration_threshold
    THEN IF ~s.is_holding
         THEN [state |-> [s EXCEPT !.is_holding = TRUE,
                                   !.spotify_mode = TRUE,
                                   !.spotify_mode_start_time = t],
               confirmed |-> TRUE,
               calls |-> IF avail THEN {"play_juna"} ELSE {}]
         ELSE [state |-> s, confirmed |-> FALSE, calls |-> {}]
    ELSE [state |-> s, confirmed |-> FALSE, calls |-> {}]

\* OnHolding that restarts the pending timer on the confirming frame.
OnHolding_RestartsTimer(s, t, avail) ==
    IF s.holding_start_time = NoneTime
    THEN [state |-> [s EXCEPT !.holding_start_time = t],
          confirmed |-> FALSE, calls |-> {}]
    ELSE IF t - s.holding_start_time > holding_duration_threshold
    THEN IF ~s.is_holding
         THEN [state |-> [s EXCEPT !.is_holding = TRUE,
                                   !.holding_start_time = t,
                                   !.spotify_mode = TRUE,
                                   !.spotify_mode_start_time = t],
               confirmed |-> TRUE,
               calls |-> IF avail THEN {"play_juna"} ELSE {}]
         ELSE [state |-> s, confirmed |-> FALSE, calls |-> {}]
    ELSE [state |-> s, confirmed |-> FALSE, calls |-> {}]

\* OnHolding that records spotify_mode_start_time on the first confirmation
\* only: a later confirmation does not restart the face cam delay.
OnHolding_KeepsFirstStart(s, t, avail) ==
    IF s.holding_start_time = NoneTime
    THEN [state |-> [s EXCEPT !.holding_start_time = t],
          confirmed |-> FALSE, calls |-> {}]
    ELSE IF t - s.holding_start_time > holding_duration_threshold
    THEN IF ~s.is_holding
         THEN [state |-> [s EXCEPT !.is_holding = TRUE,
                                   !.spotify_mode = TRUE,
                                   !.spotify_mode_start_time =
                                       IF s.spotify_mode_start_time = NoneTime
                                       THEN t ELSE s.spotify_mode_start_time],
               confirmed |-> TRUE,
               calls |-> IF avail THEN {"play_juna"} ELSE {}]
         ELSE [state |-> s, confirmed |-> FALSE, calls |-> {}]
    ELSE [state |-> s, confirmed |-> FALSE, calls |-> {}]

\* run, lines 283-293: the frame's signal is true.  The result is the new
\* HoldingState, whether the "PERFORMATIVE DETECTED" edge was taken, and
\* the controller methods called.
OnHolding(s, t, avail) ==
    IF s.holding_start_time = NoneTime
    THEN [state |-> [s EXCEPT !.holding_start_time = t],
          confirmed |-> FALSE, calls |-> {}]
    ELSE IF t - s.holding_start_time > holding_duration_threshold
    THEN IF ~s.is_holding
         THEN [state |-> [s EXCEPT !.is_holding = TRUE,
                                   !.spotify_mode = TRUE,
                                   !.spotify_mode_start_time = t],
               confirmed |-> TRUE,
               calls |-> IF avail THEN {"play_juna"} ELSE {}]
         ELSE [state |-> s, confirmed |-> FALSE, calls |-> {}]
    ELSE [state |-> s, confirmed |-> FALSE, calls |-> {}]

\* OnNotHolding that clears holding_start_time only when leaving HOLDING:
\* a pending run survives a false frame.
OnNotHolding_Leaky(s, t) ==
    IF s.is_holding
    THEN [state |-> [s EXCEPT !.holding_start_time = NoneTime,
                              !.is_holding = FALSE],
          confirmed |-> FALSE, calls |-> {}]
    ELSE [state |-> s, confirmed |-> FALSE, calls |-> {}]

\* OnNotHolding that leaves Spotify mode when the gesture ends.
OnNotHolding_ClearMode(s, t) ==
    IF s.is_holding
    THEN [state |-> [s EXCEPT !.holding_start_time = NoneTime,
                              !.is_holding = FALSE,
                              !.spotify_mode = FALSE,
                              !.spotify_mode_start_time = NoneTime],
          confirmed |-> FALSE, calls |-> {}]
    ELSE [state |-> [s EXCEPT !.holding_start_time = NoneTime],
          confirmed |-> FALSE, calls |-> {}]

\* OnNotHolding that pauses the song when the gesture ends.
OnNotHolding_Pause(s, t) ==
    IF s.is_holding
    THEN [state |-> [s EXCEPT !.holding_start_time = NoneTime,
                              !.is_holding = FALSE],
          confirmed |-> FALSE, calls |-> {"pause"}]
    ELSE [state |-> [s EXCEPT !.holding_start_time = NoneTime],
          confirmed |-> FALSE, calls |-> {}]

\* run, lines 294-299: the frame's signal is false.
OnNotHolding(s, t) ==
    IF s.is_holding
    THEN [state |-> [s EXCEPT !.holding_start_time = NoneTime,
                              !.is_holding = FALSE],
          confirmed |-> FALSE, calls |-> {}]
    ELSE [state |-> [s EXCEPT !.holding_start_time = NoneTime],
          confirmed |-> FALSE, calls |-> {}]

\* run, lines 280-299: "Update holding state with debouncing".
UpdateHolding(s, sig, t, avail) ==
    IF sig THEN OnHolding(s, t, avail) ELSE OnNotHolding(s, t)

(* ----------------------------- presentation ---------------------------- *)

\* run, lines 302-307: the text handed to create_status_window.
StatusText(holding) == IF holding THEN "PERFORMATIVE" ELSE "NOT\nPERFORMATIVE"

\* run, line 316: a start time that is None (or 0.0) is falsy and gives 0.
TimeInSpotifyMode(t, since) ==
    IF since # NoneTime /\ since # 0 THEN t - since ELSE 0

\* Present switching to the face cam only after more than face_cam_delay.
Present_Strict(s, t, d) ==
    IF s.spotify_mode
    THEN IF TimeInSpotifyMode(t, s.spotify_mode_start_time) > face_cam_delay
         THEN [face_cam_shown |-> TRUE,
               force_top_counter |-> d.force_top_counter + 1,
               windows |-> (d.windows \cup {"Status", "Face Cam"}) \ {"Camera Feed"},
               surface |-> "Face Cam"]
         ELSE [face_cam_shown |-> d.face_cam_shown,
               force_top_counter |-> d.force_top_counter,
               windows |-> d.windows \cup {"Status", "Camera Feed"},
               surface |-> "Camera Feed"]
    ELSE [face_cam_shown |-> d.face_cam_shown,
          force_top_counter |-> d.force_top_counter,
          windows |-> (d.windows \cup {"Status", "Camera Feed"}) \ {"Face Cam"},
          surface |-> "Camera Feed"]

\* run, lines 311-359: which windows the frame is drawn to.  d is the
\* display state [face_cam_shown, force_top_counter, windows].  (Every
\* tenth face-cam frame also starts osascript, which changes none of this.)
Present(s, t, d) ==
    IF s.spotify_mode
    THEN IF TimeInSpotifyMode(t, s.spotify_mode_start_time) >= face_cam_delay
         THEN [face_cam_shown |-> TRUE,
               force_top_counter |-> d.force_top_counter + 1,
               windows |-> (d.windows \cup {"Status", "Face Cam"}) \ {"Camera Feed"},
               surface |-> "Face Cam"]
         ELSE [face_cam_shown |-> d.face_cam_shown,
               force_top_counter |-> d.force_top_counter,
               windows |-> d.windows \cup {"Status", "Camera Feed"},
               surface |-> "Camera Feed"]
    ELSE [face_cam_shown |-> d.face_cam_shown,
          force_top_counter |-> d.force_top_counter,
          windows |-> (d.windows \cup {"Status", "Camera Feed"}) \ {"Face Cam"},
          surface |-> "Camera Feed"]

(* ------------------------------ the frame loop ------------------------- *)

\* The state after PerformativeDetector() is constructed.
\* _initialize_spotify: no credentials or an exception leave sp None; a
\* client that lists no device leaves device_id None.
InitWith(handlers, remotes) ==
    /\ pc = "running"
    /\ now = 0
    /\ hands = <<>>
    /\ holding_detected = FALSE
    /\ is_holding = FALSE
    /\ holding_start_time = NoneTime
    /\ spotify_mode = FALSE
    /\ spotify_mode_start_time = NoneTime
    /\ face_cam_shown = FALSE
    /\ force_top_counter = 0
    /\ status_text = ""
    /\ windows = {}
    /\ surface = "None"
    /\ \E c \in handlers : sp = c[1] /\ device_id = c[2]
    /\ is_playing = FALSE
    /\ window_opened = FALSE
    /\ tasks = [query |-> 0, start |-> 0]
    /\ remote \in remotes
    /\ lastResult = "None"
    /\ runStart = NoneTime
    /\ runConfirms = 0
    /\ playsSinceNotHolding = 0
    /\ retried = FALSE
    /\ keptPlaying = FALSE
    /\ probe = <<>>
    /\ verdict = [rule |-> "None", result |-> FALSE]
    /\ ref = [is_holding |-> FALSE, holding_start_time |-> NoneTime,
              spotify_mode |-> FALSE, spotify_mode_start_time |-> NoneTime,
              surface |-> "None"]

Init ==
    InitWith({<<"None", "None">>, <<"client", "None">>, <<"client", "device">>},
             RemoteStates)

\* The body of one iteration of the while loop of run whose cap.read()
\* succeeds, up to cv2.waitKey: hl are the hands MediaPipe reports, dt the
\* ticks since the previous frame.
ProcessFrame(hl, dt) ==
    /\ now + dt <= MaxTime
    /\ LET t == now + dt
           sig == HoldingDetected(hl)
           u == UpdateHolding(HoldingState, sig, t, is_spotify_available)
           d == [face_cam_shown |-> face_cam_shown,
                 force_top_counter |-> force_top_counter,
                 windows |-> windows]
           p == Present(u.state, t, d)
           called == "play_juna" \in u.calls
           c == [is_playing |-> is_playing, remote |-> remote]
           c2 == IF "pause" \in u.calls THEN pause(c) ELSE c
           ts == IF called THEN play_juna(tasks) ELSE tasks
           ru == UpdateHolding([is_holding |-> ref.is_holding,
                                holding_start_time |-> ref.holding_start_time,
                                spotify_mode |-> ref.spotify_mode,
                                spotify_mode_start_time |-> ref.spotify_mode_start_time],
                               sig, t, FALSE)
           rp == Present(ru.state, t, d)
       IN  /\ LiveTasks(ts) <= MaxTasks
           /\ p.force_top_counter <= MaxForceTop
           /\ now' = t
           /\ hands' = hl
           /\ holding_detected' = sig
           /\ is_holding' = u.state.is_holding
           /\ holding_start_time' = u.state.holding_start_time
           /\ spotify_mode' = u.state.spotify_mode
           /\ spotify_mode_start_time' = u.state.spotify_mode_start_time
           /\ status_text' = StatusText(u.state.is_holding)
           /\ face_cam_shown' = p.face_cam_shown
           /\ force_top_counter' = p.force_top_counter
           /\ windows' = p.windows
           /\ surface' = p.surface
           /\ tasks' = ts
           /\ is_playing' = c2.is_playing
           /\ remote' = c2.remote
           /\ runStart' = IF ~sig THEN NoneTime
                          ELSE IF holding_detected THEN runStart ELSE t
           /\ runConfirms' = IF ~sig THEN 0
                             ELSE runConfirms + (IF u.confirmed THEN 1 ELSE 0)
           /\ playsSinceNotHolding' =
                 IF ~u.state.is_holding THEN 0
                 ELSE playsSinceNotHolding + (IF called THEN 1 ELSE 0)
           /\ retried' = (retried \/ (called /\ lastResult = "failed"))
           /\ ref' = [is_holding |-> ru.state.is_holding,
                      holding_start_time |-> ru.state.holding_start_time,
                      spotify_mode |-> ru.state.spotify_mode,
                      spotify_mode_start_time |-> ru.state.spotify_mode_start_time,
                      surface |-> rp.surface]
    /\ pc' = pc
    /\ UNCHANGED <<sp, device_id, window_opened, lastResult, keptPlaying, classifier>>

\* Frame as it would be if play_juna joined the threads it starts: the loop
\* takes its next iteration only once no trigger thread is alive.
Frame_JoinsThreads(hl, dt) ==
    /\ pc = "running"
    /\ LiveTasks(tasks) = 0
    /\ ProcessFrame(hl, dt)

\* The while loop of run takes its next iteration whenever it is running:
\* play_juna has returned, nothing is joined or awaited.
Frame(hl, dt) ==
    /\ pc = "running"
    /\ ProcessFrame(hl, dt)

\* run, lines 361-369: cv2.waitKey at the end of an iteration reads 'q';
\* the loop ends and the cleanup destroys all windows.  The process then
\* exits and its daemon threads with it.
Quit ==
    /\ pc = "running"
    /\ surface # "None"
    /\ pc' = "stopped"
    /\ windows' = {}
    /\ UNCHANGED <<now, hands, holding_detected, is_holding, holding_start_time,
                   spotify_mode, spotify_mode_start_time, face_cam_shown,
                   force_top_counter, status_text, surface, controller, tasks,
                   remote, lastResult, history, keptPlaying, classifier>>

\* ReadFail treating the missing frame as a frame without hands before it
\* stops.
ReadFail_ProcessesEmptyFrame ==
    /\ pc = "running"
    /\ pc' = "stopped"
    /\ windows' = {}
    /\ holding_detected' = FALSE
    /\ is_holding' = FALSE
    /\ holding_start_time' = NoneTime
    /\ UNCHANGED <<now, hands, spotify_mode, spotify_mode_start_time,
                   face_cam_shown, force_top_counter, status_text, surface,
                   controller, tasks, remote, lastResult, history, keptPlaying,
                   classifier>>

\* run, lines 248-252 and 366-369: the capture is not open or cap.read()
\* returns no frame: the loop ends before anything is processed and the
\* cleanup runs.
ReadFail ==
    /\ pc = "running"
    /\ pc' = "stopped"
    /\ windows' = {}
    /\ UNCHANGED <<now, hands, holding_detected, is_holding, holding_start_time,
                   spotify_mode, spotify_mode_start_time, face_cam_shown,
                   force_top_counter, status_text, surface, controller, tasks,
                   remote, lastResult, history, keptPlaying, classifier>>

(* --------------------------- the background task ----------------------- *)

\* AlreadyPlaying without the is_playing test: a paused target track
\* counts as playing.
AlreadyPlaying_IgnorePaused(current) ==
    /\ current.item # "None"
    /\ current.item = target_track_uri

\* _play_juna_async, line 97-99: the thread returns without a command when
\* the playback it was told of has an item, the item is the target track
\* and it is playing.
AlreadyPlaying(current) ==
    /\ current.item # "None"
    /\ current.item = target_track_uri
    /\ current.is_playing

\* TaskQuery whose error path drops the client, as the except clause of
\* _initialize_spotify does.
TaskQuery_DropsClient(ok) ==
    /\ pc = "running"
    /\ tasks.query > 0
    /\ IF ~ok
       THEN /\ tasks' = [tasks EXCEPT !.query = @ - 1]
            /\ lastResult' = "failed"
            /\ sp' = "None"
       ELSE IF AlreadyPlaying(remote)
       THEN /\ tasks' = [tasks EXCEPT !.query = @ - 1]
            /\ lastResult' = "skipped"
            /\ sp' = sp
       ELSE /\ tasks' = [tasks EXCEPT !.query = @ - 1, !.start = @ + 1]
            /\ lastResult' = lastResult
            /\ sp' = sp
    /\ UNCHANGED <<detector, device_id, is_playing, window_opened, remote,
                   history, keptPlaying, classifier>>

\* _play_juna_async, lines 92-100 and 115-117: current_playback() raises
\* (ok = FALSE) and the thread ends, or it reports the remote state.
TaskQuery(ok) ==
    /\ pc = "running"
    /\ tasks.query > 0
    /\ IF ~ok
       THEN /\ tasks' = [tasks EXCEPT !.query = @ - 1]
            /\ lastResult' = "failed"
       ELSE IF AlreadyPlaying(remote)
       THEN /\ tasks' = [tasks EXCEPT !.query = @ - 1]
            /\ lastResult' = "skipped"
       ELSE /\ tasks' = [tasks EXCEPT !.query = @ - 1, !.start = @ + 1]
            /\ lastResult' = lastResult
    /\ UNCHANGED <<detector, controller, remote, history, keptPlaying, classifier>>

\* The command _play_juna_async sends: start_playback(device_id=
\* self.device_id, uris=[self.target_track_uri]), as the remote's new state.
StartPlayback == [item |-> target_track_uri, is_playing |-> TRUE,
                  device |-> device_id]

\* TaskStart whose error path leaves Spotify mode, so that no face cam is
\* shown when no music could be started.
TaskStart_LeavesSpotifyMode(ok, popen) ==
    /\ pc = "running"
    /\ tasks.start > 0
    /\ tasks' = [tasks EXCEPT !.start = @ - 1]
    /\ IF ok
       THEN /\ remote' = StartPlayback
            /\ is_playing' = TRUE
            /\ window_opened' = (window_opened \/ popen)
            /\ lastResult' = "played"
            /\ keptPlaying' = TRUE
            /\ UNCHANGED <<spotify_mode, spotify_mode_start_time>>
       ELSE /\ lastResult' = "failed"
            /\ spotify_mode' = FALSE
            /\ spotify_mode_start_time' = NoneTime
            /\ UNCHANGED <<remote, is_playing, window_opened, keptPlaying>>
    /\ UNCHANGED <<pc, now, hands, holding_detected, is_holding,
                   holding_start_time, face_cam_shown, force_top_counter,
                   status_text, windows, surface, sp, device_id, history,
                   classifier>>

\* _play_juna_async, lines 102-117, and show_spotify_window: start_playback
\* raises (ok = FALSE), or the remote starts the target track, is_playing
\* is set and the Spotify window is shown: nothing when it was opened
\* before, else osascript is started (popen) and window_opened set, or
\* Popen raises and only a warning is printed.
TaskStart(ok, popen) ==
    /\ pc = "running"
    /\ tasks.start > 0
    /\ tasks' = [tasks EXCEPT !.start = @ - 1]
    /\ IF ok
       THEN /\ remote' = StartPlayback
            /\ is_playing' = TRUE
            /\ window_opened' = (window_opened \/ popen)
            /\ lastResult' = "played"
            /\ keptPlaying' = TRUE
       ELSE /\ lastResult' = "failed"
            /\ UNCHANGED <<remote, is_playing, window_opened, keptPlaying>>
    /\ UNCHANGED <<detector, sp, device_id, history, classifier>>

\* The remote account is not ours alone: the listener, or the track ending,
\* changes what current_playback reports.
RemoteChange(r) ==
    /\ pc = "running"
    /\ r # remote
    /\ remote' = r
    /\ keptPlaying' = FALSE
    /\ UNCHANGED <<detector, controller, tasks, lastResult, history, classifier>>

\* The hands of the frames fed to the loop: none, one hand, two hands.
FrameHands == {<<>>, <<"grip">>, <<"grip", "edge">>}

Next ==
    \/ \E hl \in FrameHands, dt \in 0..MaxDt : Frame(hl, dt)
    \/ Quit
    \/ ReadFail
    \/ \E ok \in BOOLEAN : TaskQuery(ok)
    \/ \E ok \in BOOLEAN, popen \in BOOLEAN : TaskStart(ok, popen)
    \/ \E r \in RemoteStates : RemoteChange(r)

Spec == Init /\ [][Next]_vars

\* The frame loop alone, with playback unavailable, fed every list of hands
\* the landmark source can report.
InitCamera ==
    InitWith({<<"None", "None">>, <<"client", "None">>},
             {[item |-> "None", is_playing |-> FALSE, device |-> "None"]})

NextCamera ==
    \/ \E hl \in HandLists, dt \in 0..MaxDt : Frame(hl, dt)
    \/ Quit
    \/ ReadFail

SpecCamera == InitCamera /\ [][NextCamera]_vars

\* The two geometric rules called on their own, as a unit test calls them:
\* each is a pure function of the landmark sets it is given.
CallHoldingGesture(ds) ==
    /\ probe' = ds
    /\ verdict' = [rule |-> "detect_holding_gesture",
                   result |-> detect_holding_gesture(HandsOf(ds))]
    /\ UNCHANGED <<detector, controller, tasks, remote, lastResult, history,
                   keptPlaying>>

CallSingleHandHolding(d) ==
    /\ probe' = <<d>>
    /\ verdict' = [rule |-> "detect_single_hand_holding",
                   result |-> detect_single_hand_holding(HandOf(d))]
    /\ UNCHANGED <<detector, controller, tasks, remote, lastResult, history,
                   keptPlaying>>

InitClassifier ==
    InitWith({<<"None", "None">>},
             {[item |-> "None", is_playing |-> FALSE, device |-> "None"]})

NextClassifier ==
    \/ \E ds \in PairProbes : CallHoldingGesture(ds)
    \/ \E d \in SingleHands : CallSingleHandHolding(d)

SpecClassifier == InitClassifier /\ [][NextClassifier]_vars

(* ------------------------------ properties ----------------------------- *)

Available == sp # "None" /\ device_id # "None"

\* A step of the frame loop that processed a frame: the frame's hands and
\* time are those the next state records.
FrameStep == now' - now \in 0..MaxDt /\ Frame(hands', now' - now)

\* C1: in a run of consecutive true frames that started from NOT_HOLDING,
\* once a frame's time exceeds the run's start by more than the threshold
\* the machine is HOLDING, is_holding was set on exactly one frame of the
\* run, and exactly one trigger attempt was made in the run (a play_juna
\* call when the controller is available), however many true frames follow.
C1_ConfirmedOncePerRun ==
    /\ runConfirms <= 1
    /\ playsSinceNotHolding <= 1
    /\ (holding_detected /\ now - runStart > holding_duration_threshold) =>
          /\ is_holding
          /\ runConfirms = 1
          /\ playsSinceNotHolding = (IF Available THEN 1 ELSE 0)
    /\ is_holding => holding_detected /\ runConfirms = 1

\* Several true frames followed the confirming one; one confirmation, one trigger.
C1_Witness ==
    /\ is_holding /\ Available
    /\ now - spotify_mode_start_time >= 2
    /\ runConfirms = 1 /\ playsSinceNotHolding = 1

\* C2: a false frame clears holding_start_time, so the pending time always
\* counts from the first true frame after the last false one, and HOLDING
\* is entered only when that fresh run alone spans more than the threshold.
C2_NoLeakyBucket ==
    /\ ~holding_detected => holding_start_time = NoneTime /\ ~is_holding
    /\ holding_detected => holding_start_time = runStart /\ runStart # NoneTime
    /\ is_holding => spotify_mode_start_time - runStart > holding_duration_threshold

\* True frames were seen before (an episode was confirmed), a false frame
\* followed, and the new run is still pending although more than the
\* threshold has passed since the earlier true frames.
C2_Witness ==
    /\ holding_detected /\ ~is_holding
    /\ spotify_mode /\ runStart >= spotify_mode_start_time
    /\ now - spotify_mode_start_time > holding_duration_threshold
    /\ now - runStart = holding_duration_threshold

\* C3: play_juna is called at most once between two frames that leave the
\* machine NOT_HOLDING, and never on a frame that finds it HOLDING.
C3_OneTriggerPerEpisode ==
    [][/\ playsSinceNotHolding' <= 1
       /\ (is_holding /\ FrameStep) => tasks' = tasks]_vars

\* The machine stayed HOLDING over further true frames after its one trigger.
C3_Witness ==
    /\ is_holding /\ holding_detected
    /\ now > spotify_mode_start_time
    /\ playsSinceNotHolding = 1
    /\ LiveTasks(tasks) = 1 /\ lastResult = "None"

C5_ClearedWhenNotHolding ==
    ~is_holding => spotify_mode_start_time = NoneTime /\ ~spotify_mode

\* C5 amended: spotify_mode_start_time and spotify_mode are written on the
\* frame that enters HOLDING (the time of that frame, True) and by no other
\* step: leaving HOLDING does not clear them.
C5_SetOnEntryNeverCleared ==
    [][IF ~is_holding /\ is_holding'
       THEN spotify_mode_start_time' = now' /\ spotify_mode'
       ELSE /\ spotify_mode_start_time' = spotify_mode_start_time
            /\ spotify_mode' = spotify_mode]_vars

\* NOT_HOLDING after an episode ended, the start time still set.
C5_Witness ==
    /\ ~is_holding /\ ~holding_detected
    /\ spotify_mode /\ spotify_mode_start_time # NoneTime
    /\ now > spotify_mode_start_time

\* C6: a false frame that finds the machine HOLDING leaves it NOT_HOLDING
\* with holding_start_time cleared, and no frame pauses or otherwise
\* changes the playback (the controller's is_playing, the remote state).
C6_ReleaseDoesNotPause ==
    [][FrameStep =>
          /\ (is_holding /\ ~holding_detected') =>
                ~is_holding' /\ holding_start_time' = NoneTime
          /\ is_playing' = is_playing
          /\ remote' = remote]_vars

\* The gesture ended and the song is still playing.
C6_Witness ==
    /\ ~is_holding /\ ~holding_detected /\ spotify_mode
    /\ is_playing
    /\ remote.item = target_track_uri /\ remote.is_playing

\* C7: a thread that is told the target track is playing sends no
\* command and ends; a thread told anything else goes on to
\* start_playback, which (when it does not raise) makes the remote play
\* the target track on the controller's device, and the thread ends.
C7_IdempotentStart ==
    [][/\ TaskQuery(TRUE) =>
             IF remote.item = target_track_uri /\ remote.is_playing
             THEN tasks'.start = tasks.start /\ remote' = remote
             ELSE tasks'.start = tasks.start + 1 /\ remote' = remote
       /\ (TaskStart(TRUE, TRUE) \/ TaskStart(TRUE, FALSE)) =>
             /\ remote' = [item |-> target_track_uri, is_playing |-> TRUE,
                           device |-> device_id]
             /\ LiveTasks(tasks') = LiveTasks(tasks) - 1]_vars

\* A thread found the target track playing and ended without a command.
C7_Witness ==
    /\ lastResult = "skipped"
    /\ LiveTasks(tasks) = 0
    /\ ~is_playing

\* C8: HoldingState and the surface drawn to are the same as in a run fed
\* the same frames with playback unavailable, whatever the playback did.
C8_PlaybackDoesNotAffectState ==
    /\ ref.is_holding = is_holding
    /\ ref.holding_start_time = holding_start_time
    /\ ref.spotify_mode = spotify_mode
    /\ ref.spotify_mode_start_time = spotify_mode_start_time
    /\ ref.surface = surface

\* A trigger failed, and the machine is HOLDING as in the reference run.
C8_Witness ==
    /\ Available /\ lastResult = "failed"
    /\ is_holding /\ ref.is_holding

\* C9: without a client or without a device id no thread is ever started
\* and no remote call is made or finished.
C9_UnavailableSkipsTrigger ==
    (sp = "None" \/ device_id = "None") =>
        /\ LiveTasks(tasks) = 0
        /\ lastResult = "None"
        /\ ~retried
        /\ playsSinceNotHolding = 0
        /\ ~is_playing /\ ~window_opened

\* A client without a device: HOLDING was confirmed, nothing triggered.
C9_Witness ==
    /\ sp # "None" /\ device_id = "None"
    /\ is_holding /\ runConfirms = 1
    /\ LiveTasks(tasks) = 0

\* C10: with the controller available every frame that enters HOLDING
\* starts one thread, whatever became of earlier attempts, and no frame
\* that finds the machine HOLDING starts one.
C10_EveryEdgeAttempts ==
    [][FrameStep =>
          /\ (~is_holding /\ is_holding' /\ sp # "None" /\ device_id # "None") =>
                tasks' = [tasks EXCEPT !.query = @ + 1]
          /\ is_holding => tasks' = tasks]_vars

\* The attempt before failed; a later confirmation started a new thread.
C10_Witness ==
    /\ retried
    /\ is_holding
    /\ tasks.query >= 1

\* C11: the frame loop never waits on the playback trigger.  In every state
\* in which the loop is running, however many trigger threads are in flight
\* (they may never complete), the next frame step is enabled and is_holding
\* follows the signal: a frame without hands can be processed at once and
\* leaves is_holding false and the pending timer cleared; a frame with a hand
\* can be processed at once and leaves the pending timer set; and a pending
\* or confirmed run is confirmed by a frame more than the threshold later.
\* (The frames named are those the bounds MaxTime, MaxTasks and MaxForceTop
\* of the model leave room for.)
C11_LoopNeverWaits ==
    (pc = "running" /\ force_top_counter < MaxForceTop) =>
        /\ ENABLED (Frame(<<>>, 0) /\ ~is_holding' /\ holding_start_time' = NoneTime)
        /\ LiveTasks(tasks) < MaxTasks =>
              ENABLED (Frame(<<"grip">>, 0) /\ holding_start_time' # NoneTime)
        /\ (LiveTasks(tasks) < MaxTasks /\ holding_start_time # NoneTime
               /\ now + MaxDt <= MaxTime) =>
              ENABLED (Frame(<<"grip">>, MaxDt) /\ is_holding')

\* A trigger thread is still in flight although the loop has since processed
\* later frames: the hand was lowered and raised again after the confirmation.
C11_Witness ==
    /\ pc = "running"
    /\ LiveTasks(tasks) >= 1
    /\ ~is_holding
    /\ holding_detected
    /\ spotify_mode
    /\ now > spotify_mode_start_time

\* C12: detect_holding_gesture returns true exactly when it is given at
\* least two landmark sets, the centroids of the first two are strictly
\* closer than 0.5, and the midpoint of those centroids is strictly inside
\* 0.1 < x < 0.9, 0.1 < y < 0.95; so it is false for fewer than two hands and
\* for every pair at distance 0.5 or more.  The centroid of a hand of
\* HandOf is ((21 wx + tdx) / 21, (21 wy - 2 idy - mdy) / 21).
C12_TwoHandRule ==
    verdict.rule = "detect_holding_gesture" =>
        LET cx21(d) == 21 * d.wx + d.tdx
            cy21(d) == 21 * d.wy - 2 * d.idy - d.mdy
            a == probe[1]
            b == probe[2]
            dx == cx21(a) - cx21(b)
            dy == cy21(a) - cy21(b)
        IN  verdict.result <=>
              /\ Len(probe) >= 2
              /\ dx * dx + dy * dy < (50 * 21) * (50 * 21)
              /\ 2 * 10 * 21 < cx21(a) + cx21(b)
              /\ cx21(a) + cx21(b) < 2 * 90 * 21
              /\ 2 * 10 * 21 < cy21(a) + cy21(b)
              /\ cy21(a) + cy21(b) < 2 * 95 * 21

\* The rule answered false for two fists exactly 0.5 apart in the centre of
\* the frame.
C12_Witness ==
    /\ verdict = [rule |-> "detect_holding_gesture", result |-> FALSE]
    /\ probe = <<Fist(20, 50), Fist(70, 50)>>

\* C13 as stated: detect_single_hand_holding returns true only when the index
\* AND the middle fingertip are at or below their knuckle minus the slack
\* 0.08 (a fingertip of HandOf is raised idy, mdy above its knuckle), the
\* thumb tip is closer than 0.3 to the index tip and the wrist is inside the
\* centre rectangle; if either finger is not curled it returns false.
C13_BothFingersCurled ==
    (verdict.rule = "detect_single_hand_holding" /\ verdict.result) =>
        LET d == probe[1]
        IN  /\ d.idy <= 8 /\ d.mdy <= 8
            /\ d.tdx * d.tdx < 30 * 30
            /\ 10 < d.wx /\ d.wx < 90
            /\ 10 < d.wy /\ d.wy < 95

\* C13 as the code has it: detect_single_hand_holding returns true exactly
\* when the wrist is strictly inside the centre rectangle, the thumb tip is
\* strictly closer than 0.3 to the index tip, and AT LEAST ONE of the index
\* and the middle fingertip is strictly below its knuckle minus 0.08 (raised
\* by less than 0.08 above it).
C13_EitherFingerCurled ==
    verdict.rule = "detect_single_hand_holding" =>
        LET d == probe[1]
        IN  verdict.result <=>
              /\ d.idy < 8 \/ d.mdy < 8
              /\ d.tdx * d.tdx < 30 * 30
              /\ 10 < d.wx /\ d.wx < 90
              /\ 10 < d.wy /\ d.wy < 95

\* The rule answered true for a hand in the centre whose index finger is
\* curled and whose middle finger is stretched out.
C13_Witness ==
    /\ verdict = [rule |-> "detect_single_hand_holding", result |-> TRUE]
    /\ probe = <<[wx |-> 50, wy |-> 50, idy |-> 0, mdy |-> 10, tdx |-> 29]>>

\* C14: once spotify_mode_start_time is set, what the last frame was drawn to
\* depends only on that frame's time minus spotify_mode_start_time: the full
\* camera view when it is less than face_cam_delay, the face cam (picture in
\* picture, the camera window destroyed) when it is face_cam_delay or more.
\* The delay does not postpone the trigger: while the camera view is still
\* shown in a confirmed episode, play_juna has already been called.
C14_DisplayFollowsDelay ==
    spotify_mode_start_time # NoneTime =>
        /\ now - spotify_mode_start_time < face_cam_delay =>
              /\ surface = "Camera Feed"
              /\ pc = "running" => "Camera Feed" \in windows
        /\ now - spotify_mode_start_time >= face_cam_delay =>
              /\ surface = "Face Cam"
              /\ pc = "running" => "Face Cam" \in windows /\ "Camera Feed" \notin windows
        /\ (is_holding /\ Available /\ surface = "Camera Feed") =>
              playsSinceNotHolding = 1

\* The frame exactly face_cam_delay after the confirmation shows the face cam.
C14_Witness ==
    /\ surface = "Face Cam"
    /\ now - spotify_mode_start_time = face_cam_delay
    /\ pc = "running"

\* A step of a trigger thread: a thread left current_playback or left
\* start_playback (the frame loop only ever adds threads).
ThreadStep == tasks'.query < tasks.query \/ tasks'.start < tasks.start

\* C15: HoldingState is written by the main loop only.  Every step of a
\* background thread (the query, start_playback, either error path,
\* show_spotify_window) leaves is_holding, holding_start_time, spotify_mode
\* and spotify_mode_start_time as they were.
C15_ThreadsLeaveHoldingState ==
    [][ThreadStep =>
          UNCHANGED <<is_holding, holding_start_time, spotify_mode,
                      spotify_mode_start_time>>]_vars

\* The thread of a confirmed episode ended in a failed remote call and the
\* episode is still confirmed, in Spotify mode, with its start time.
C15_Witness ==
    /\ lastResult = "failed"
    /\ LiveTasks(tasks) = 0
    /\ is_holding
    /\ spotify_mode
    /\ spotify_mode_start_time = now

\* C16: the availability predicate is fixed after startup.  No frame step
\* and no thread step, a failed remote call included, changes the client
\* handle sp or device_id, so is_spotify_available() keeps its value.
C16_AvailabilityFixed ==
    [][/\ sp' = sp
       /\ device_id' = device_id
       /\ is_spotify_available' = is_spotify_available]_vars

\* Playback was available, a remote call of a thread failed, and a later
\* confirmation found playback still available and called play_juna again.
C16_Witness ==
    /\ retried
    /\ sp = "client"
    /\ device_id = "device"
    /\ lastResult = "failed"

\* C17: when cap.read() gives no frame the loop ends on that iteration:
\* nothing is classified, HoldingState is not updated, no thread is started,
\* the frame clock and the status are not touched, and the cleanup destroys
\* the windows.  The same holds when 'q' is read at the end of an iteration.
\* Once the loop has ended nothing steps any more.
C17_StopsWithoutProcessing ==
    [][/\ pc = "running"
       /\ pc' = "stopped" =>
             /\ windows' = {}
             /\ UNCHANGED <<now, hands, holding_detected, is_holding,
                            holding_start_time, spotify_mode,
                            spotify_mode_start_time, status_text, surface,
                            tasks, playsSinceNotHolding>>]_vars

\* The loop ended during a confirmed episode with a trigger thread still in
\* flight: the episode's state is as the last frame left it and the windows
\* are gone.
C17_Witness ==
    /\ pc = "stopped"
    /\ windows = {}
    /\ is_holding
    /\ holding_start_time # NoneTime
    /\ LiveTasks(tasks) >= 1

\* C18: confirmation uses a strict comparison and never happens on the frame
\* that records holding_start_time.  A frame enters HOLDING only if it is a
\* true frame, holding_start_time was set by an earlier frame and is kept,
\* and the frame's time exceeds it by more than the threshold; every true
\* frame of a pending run that does exceed it enters HOLDING; a true frame
\* exactly the threshold after holding_start_time leaves the machine
\* pending; and a frame that finds holding_start_time unset never confirms,
\* whatever the threshold, so two true frames are needed at the least.
C18_StrictConfirmation ==
    [][FrameStep =>
          /\ (~is_holding /\ is_holding') =>
                /\ holding_detected'
                /\ holding_start_time # NoneTime
                /\ holding_start_time' = holding_start_time
                /\ now' - holding_start_time > holding_duration_threshold
          /\ (holding_detected' /\ holding_start_time # NoneTime
                /\ now' - holding_start_time > holding_duration_threshold) =>
                is_holding'
          /\ (holding_detected' /\ ~is_holding /\ holding_start_time # NoneTime
                /\ now' - holding_start_time = holding_duration_threshold) =>
                ~is_holding' /\ holding_start_time' = holding_start_time
          /\ holding_start_time = NoneTime =>
                ~is_holding' /\ spotify_mode_start_time' = spotify_mode_start_time
      ]_vars

\* Two true frames were processed, the second exactly the threshold after
\* the first, and the machine is still pending.
C18_Witness ==
    /\ holding_detected
    /\ holding_start_time # NoneTime
    /\ now - holding_start_time = holding_duration_threshold
    /\ ~is_holding
    /\ ~spotify_mode

\* C19: the idempotency check holds across threads.  Once the start_playback
\* of some thread has made the remote play the target track, and nothing has
\* changed the remote since, no thread issues a start_playback that succeeds
\* and so starts the track again from its beginning.
C19_NoRestartAcrossTasks ==
    [][~(/\ keptPlaying
         /\ AlreadyPlaying(remote)
         /\ tasks'.start < tasks.start
         /\ lastResult' = "played"
         /\ remote' = StartPlayback)]_vars

\* C20: after every frame update the debounce variables are consistent:
\* holding_start_time is None exactly when the most recent frame's signal was
\* false, and is_holding implies that holding_start_time is set, spotify_mode
\* is true, spotify_mode_start_time is set and spotify_mode_start_time is at
\* least holding_start_time plus the threshold.
C20_DebounceConsistent ==
    /\ (holding_start_time = NoneTime) <=> ~holding_detected
    /\ is_holding =>
          /\ holding_start_time # NoneTime
          /\ spotify_mode
          /\ spotify_mode_start_time # NoneTime
          /\ spotify_mode_start_time >=
                holding_start_time + holding_duration_threshold

\* A confirmed episode that frames have since followed: it was confirmed on
\* the first tick later than the threshold.
C20_Witness ==
    /\ is_holding
    /\ spotify_mode_start_time =
          holding_start_time + holding_duration_threshold + 1
    /\ now > spotify_mode_start_time

\* C21: spotify_mode is a one-way latch.  Once set it is true in every later
\* state; from then on the frame is drawn by the Spotify-mode branches only,
\* so the surface is the face cam or the full camera according to the time
\* since the most recent confirmation alone, and the normal-mode branch,
\* which would destroy a face cam window, is never taken again; each later
\* confirmation restarts the delay and shows the full camera view again.
C21_SpotifyModeLatch ==
    [][/\ spotify_mode => spotify_mode'
       /\ spotify_mode' =>
             surface' = (IF now' - spotify_mode_start_time' >= face_cam_delay
                         THEN "Face Cam" ELSE "Camera Feed")
       /\ (spotify_mode /\ "Face Cam" \in windows /\ pc' = "running") =>
             "Face Cam" \in windows'
       /\ (spotify_mode /\ ~is_holding /\ is_holding') =>
             /\ spotify_mode_start_time' = now'
             /\ spotify_mode_start_time' > spotify_mode_start_time
             /\ surface' = "Camera Feed"
      ]_vars

\* A second confirmation after the face cam had appeared: the full camera
\* view is shown again, the delay counts from this frame, and the face cam
\* window of the first episode was never destroyed.
C21_Witness ==
    /\ is_holding
    /\ face_cam_shown
    /\ spotify_mode_start_time = now
    /\ surface = "Camera Feed"
    /\ "Face Cam" \in windows

=============================================================================
